---- MODULE Spec2Model ----
(***************************************************************************)
(* Model of deepmd/utils/compat.py: the migration of a deepmd-kit input    *)
(* document from the 0.x.x and 1.x.x layouts to the current layout, and   *)
(* the removal of training->numb_test.                                     *)
(*                                                                         *)
(* A document (a Python dict with string keys) is a TLA+ function whose    *)
(* domain is the set of keys that are present; nested dicts are nested     *)
(* functions, lists are sequences.                                         *)
(***************************************************************************)
EXTENDS Integers, Sequences, FiniteSets, TLC

VARIABLES
    call,      \* the entry point the user calls
    warning,   \* its warning argument
    dump,      \* its dump argument: None or a path
    arg,       \* the document as it was passed to this call
    jdata,     \* the document object the stages work on
    route,     \* the branch update_deepmd_input took: "v0", "v1" or "v2"
    pc,        \* the stage to run next, or "call", "done", "failed"
    trace,     \* the stages run by this call, in order
    err,       \* the exception that ended this call, "" if none
    warnings,  \* the warnings emitted by this call, in order
    writes,    \* the files written by this call, in order
    result,    \* <<the returned document>>, <<>> before the return
    ncalls,    \* the number of this application
    orig,      \* the document passed to the first application
    first      \* <<the document the first application returned>>

vars == <<call, warning, dump, arg, jdata, route, pc, trace, err,
          warnings, writes, result, ncalls, orig, first>>

(***************************************************************************)
(* Bounds of the model.                                                    *)
(***************************************************************************)
\* an input document differs from a base document in at most MaxToggle keys
MaxToggle == 2
\* an entry point is applied at most MaxCalls times in a row, each time to
\* the document the previous application returned
MaxCalls == 2

(***************************************************************************)
(* Python values.                                                          *)
(***************************************************************************)
None == "None"
SinkPath == "out.json"
Empty == [k \in {} |-> 0]

Has(d, k) == k \in DOMAIN d
Put(d, k, v) == [x \in DOMAIN d \cup {k} |-> IF x = k THEN v ELSE d[x]]
Pop(d, k) == [x \in DOMAIN d \ {k} |-> d[x]]

RECURSIVE Pow(_, _)
Pow(b, e) == IF e = 0 THEN 1 ELSE b * Pow(b, e - 1)

(***************************************************************************)
(* _jcopy: copy the keys of `keys` that src has into dst.                  *)
(***************************************************************************)
_jcopy(src, dst, keys) ==
    [k \in DOMAIN dst \cup (keys \cap DOMAIN src) |->
        IF k \in keys /\ k \in DOMAIN src THEN src[k] ELSE dst[k]]

(***************************************************************************)
(* j_deprecated (deepmd.common): the value under key, else under the first *)
(* deprecated alias that is present, else an error.                        *)
(***************************************************************************)
j_deprecated_err(d, key, deprecated) ==
    IF Has(d, key) \/ Has(d, deprecated) THEN "" ELSE "RuntimeError"

j_deprecated(d, key, deprecated) ==
    IF Has(d, key) THEN d[key] ELSE d[deprecated]

\* the first error raised by a sequence of steps ("" when none raises)
RECURSIVE FirstErr(_)
FirstErr(es) ==
    IF es = <<>> THEN ""
    ELSE IF Head(es) # "" THEN Head(es) ELSE FirstErr(Tail(es))

KeyErr(d, k) == IF Has(d, k) THEN "" ELSE "KeyError"

(***************************************************************************)
(* Stage transformers of the 0.x.x -> 1.x.x conversion.                    *)
(***************************************************************************)
_nonsmth_descriptor(d) ==
    _jcopy(d, [type |-> "loc_frame"], {"sel_a", "sel_r", "rcut", "axis_rule"})

\* descriptor["rcut"] is evaluated as the default of jdata.get("rcut_smth", ...)
\* whether or not rcut_smth is present
_smth_descriptor_err(d) ==
    FirstErr(<< KeyErr(d, "sel_a"),
                KeyErr(d, "rcut"),
                KeyErr(d, "filter_neuron"),
                j_deprecated_err(d, "axis_neuron", "n_axis_neuron"),
                IF Has(d, "resnet_dt") THEN KeyErr(d, "filter_resnet_dt") ELSE "" >>)

_smth_descriptor(d) ==
    LET d0 == IF Has(d, "seed") THEN [seed |-> d["seed"]] ELSE Empty
        d1 == Put(Put(d0, "type", "se_a"), "sel", d["sel_a"])
        d2 == _jcopy(d, d1, {"rcut"})
        d3 == Put(d2, "rcut_smth",
                  IF Has(d, "rcut_smth") THEN d["rcut_smth"] ELSE d2["rcut"])
        d4 == Put(d3, "neuron", d["filter_neuron"])
        d5 == Put(d4, "axis_neuron", j_deprecated(d, "axis_neuron", "n_axis_neuron"))
    IN  Put(d5, "resnet_dt",
            IF Has(d, "resnet_dt") THEN d["filter_resnet_dt"] ELSE FALSE)

_fitting_net_err(d) == j_deprecated_err(d, "fitting_neuron", "n_neuron")

_fitting_net(d) ==
    LET f0 == IF Has(d, "seed") THEN [seed |-> d["seed"]] ELSE Empty
        f1 == Put(f0, "neuron", j_deprecated(d, "fitting_neuron", "n_neuron"))
    IN  Put(f1, "resnet_dt",
            IF Has(d, "fitting_resnet_dt") THEN d["fitting_resnet_dt"]
            ELSE IF Has(d, "resnet_dt") THEN d["resnet_dt"]
            ELSE TRUE)

_model_err(d, smooth) ==
    FirstErr(<< IF smooth THEN _smth_descriptor_err(d) ELSE "",
                _fitting_net_err(d) >>)

_model(d, smooth) ==
    [descriptor |-> IF smooth THEN _smth_descriptor(d) ELSE _nonsmth_descriptor(d),
     fitting_net |-> _fitting_net(d)]

_learning_rate(d) ==
    _jcopy(d, [type |-> "exp"], {"decay_steps", "decay_rate", "start_lr"})

_loss(d) ==
    _jcopy(d, Empty, {"start_pref_e", "limit_pref_e", "start_pref_f",
                      "limit_pref_f", "start_pref_v", "limit_pref_v",
                      "start_pref_ae", "limit_pref_ae"})

_training_err(d) ==
    FirstErr(<< KeyErr(d, "disp_freq"), KeyErr(d, "numb_test"),
                KeyErr(d, "save_freq"), KeyErr(d, "save_ckpt"),
                KeyErr(d, "disp_training"), KeyErr(d, "time_training"),
                IF Has(d, "profiling") /\ d["profiling"]
                THEN KeyErr(d, "profiling_file") ELSE "" >>)

_training(d) ==
    LET t0 == IF Has(d, "seed") THEN [seed |-> d["seed"]] ELSE Empty
        t1 == _jcopy(d, t0, {"systems", "set_prefix", "stop_batch", "batch_size"})
        t2 == Put(t1, "disp_file",
                  IF Has(d, "disp_file") THEN d["disp_file"] ELSE "lcurve.out")
        t3 == _jcopy(d, t2, {"disp_freq", "numb_test", "save_freq", "save_ckpt",
                             "disp_training", "time_training"})
        t4 == _jcopy(d, t3, {"profiling"})
    IN  IF Has(d, "profiling") /\ d["profiling"]
        THEN Put(t4, "profiling_file", d["profiling_file"])
        ELSE t4

(***************************************************************************)
(* Warning messages, as the sequence of their parts.                       *)
(***************************************************************************)
_warning_input_v0_v1(fname) ==
    <<"deepmd-kit input of version 0.x.x">>
        \o (IF fname # None THEN <<"and output it to file", fname>> ELSE <<>>)

_warning_input_v1_v2(fname) ==
    <<"deepmd-kit input of version 1.x.x">>
        \o (IF fname # None THEN <<"and output it to file", fname>> ELSE <<>>)

numb_test_warning == <<"The argument training->numb_test has been deprecated">>

\* json.dump(doc, open(path, "w"), indent=4): one whole-document write that
\* replaces the file
json_dump(doc, path) == [path |-> path, mode |-> "w", indent |-> 4, text |-> doc]

(***************************************************************************)
(* The three stages.  Each is given as the effect of one call: the         *)
(* document object after the call (doc), the error raised ("" for a        *)
(* normal return, in which case doc is also the returned value), the       *)
(* warnings emitted and the files written.                                 *)
(***************************************************************************)
convert_input_v0_v1_err(d) ==
    FirstErr(<< KeyErr(d, "use_smooth"),
                IF Has(d, "use_smooth") THEN _model_err(d, d["use_smooth"]) ELSE "",
                _training_err(d) >>)

convert_input_v0_v1(d, w, dmp) ==
    IF convert_input_v0_v1_err(d) # ""
    THEN [doc |-> d, err |-> convert_input_v0_v1_err(d),
          warns |-> <<>>, writes |-> <<>>]
    ELSE LET output == [model |-> _model(d, d["use_smooth"]),
                        learning_rate |-> _learning_rate(d),
                        loss |-> _loss(d),
                        training |-> _training(d)]
         IN  [doc |-> output, err |-> "",
              warns |-> IF w THEN <<_warning_input_v0_v1(dmp)>> ELSE <<>>,
              writes |-> IF dmp # None THEN <<json_dump(output, dmp)>> ELSE <<>>]

\* remove_decay_rate works on jdata in place; the numbers of the model are
\* naturals and stop_batch is a multiple of decay_steps, so that
\* exp(log(decay_rate) * (stop_step / decay_steps)) is an exact power
remove_decay_rate_err(d) ==
    IF ~Has(d, "learning_rate") THEN "KeyError"
    ELSE IF ~Has(d["learning_rate"], "decay_rate") THEN ""
    ELSE FirstErr(<< KeyErr(d["learning_rate"], "start_lr"),
                     KeyErr(d["training"], "stop_batch"),
                     KeyErr(d["learning_rate"], "decay_steps") >>)

remove_decay_rate(d) ==
    LET lr == d["learning_rate"]
    IN  IF ~Has(lr, "decay_rate") THEN d
        ELSE LET stop_lr == Pow(lr["decay_rate"],
                                d["training"]["stop_batch"] \div lr["decay_steps"])
                            * lr["start_lr"]
             IN  Put(d, "learning_rate", Pop(Put(lr, "stop_lr", stop_lr), "decay_rate"))

tr_data_keys == {"systems", "set_prefix", "batch_size", "sys_prob", "auto_prob",
                 "sys_weights", "auto_prob_style"}

tr_data_cfg(tr_cfg) == [k \in DOMAIN tr_cfg \cap tr_data_keys |-> tr_cfg[k]]

\* mutant: the data keys are copied to training_data but stay in training
new_tr_cfg_keepData(tr_cfg) == Put(tr_cfg, "training_data", tr_data_cfg(tr_cfg))

new_tr_cfg(tr_cfg) ==
    Put([k \in DOMAIN tr_cfg \ tr_data_keys |-> tr_cfg[k]],
        "training_data", tr_data_cfg(tr_cfg))

\* mutant: an existing training_data is overwritten instead of rejected
convert_input_v1_v2_noConflictCheck(d, w, dmp) ==
    IF ~Has(d, "training")
    THEN [doc |-> d, err |-> "KeyError", warns |-> <<>>, writes |-> <<>>]
    ELSE LET d1 == Put(d, "training", new_tr_cfg(d["training"]))
         IN  IF remove_decay_rate_err(d1) # ""
             THEN [doc |-> d1, err |-> remove_decay_rate_err(d1),
                   warns |-> <<>>, writes |-> <<>>]
             ELSE LET d2 == remove_decay_rate(d1)
                  IN  [doc |-> d2, err |-> "",
                       warns |-> IF w THEN <<_warning_input_v1_v2(dmp)>> ELSE <<>>,
                       writes |-> IF dmp # None THEN <<json_dump(d2, dmp)>> ELSE <<>>]

convert_input_v1_v2(d, w, dmp) ==
    IF ~Has(d, "training")
    THEN [doc |-> d, err |-> "KeyError", warns |-> <<>>, writes |-> <<>>]
    ELSE IF Has(d["training"], "training_data")
    THEN [doc |-> d, err |-> "RuntimeError", warns |-> <<>>, writes |-> <<>>]
    ELSE LET d1 == Put(d, "training", new_tr_cfg(d["training"]))
         IN  IF remove_decay_rate_err(d1) # ""
             THEN [doc |-> d1, err |-> remove_decay_rate_err(d1),
                   warns |-> <<>>, writes |-> <<>>]
             ELSE LET d2 == remove_decay_rate(d1)
                  IN  [doc |-> d2, err |-> "",
                       warns |-> IF w THEN <<_warning_input_v1_v2(dmp)>> ELSE <<>>,
                       writes |-> IF dmp # None THEN <<json_dump(d2, dmp)>> ELSE <<>>]

\* mutant: numb_test is read (get) instead of removed (pop)
deprecate_numb_test_get(d, w, dmp) ==
    LET popped == Has(d, "training") /\ Has(d["training"], "numb_test")
    IN  [doc |-> d, err |-> "",
         warns |-> IF popped /\ w THEN <<numb_test_warning>> ELSE <<>>,
         writes |-> IF dmp # None THEN <<json_dump(d, dmp)>> ELSE <<>>]

\* mutant: the training section is popped instead of its numb_test key
deprecate_numb_test_popTraining(d, w, dmp) ==
    LET popped == Has(d, "training") /\ Has(d["training"], "numb_test")
        d1 == IF popped THEN Pop(d, "training") ELSE d
    IN  [doc |-> d1, err |-> "",
         warns |-> IF popped /\ w THEN <<numb_test_warning>> ELSE <<>>,
         writes |-> IF dmp # None THEN <<json_dump(d1, dmp)>> ELSE <<>>]

deprecate_numb_test(d, w, dmp) ==
    LET popped == Has(d, "training") /\ Has(d["training"], "numb_test")
        d1 == IF popped THEN Put(d, "training", Pop(d["training"], "numb_test"))
              ELSE d
    IN  [doc |-> d1, err |-> "",
         warns |-> IF popped /\ w THEN <<numb_test_warning>> ELSE <<>>,
         writes |-> IF dmp # None THEN <<json_dump(d1, dmp)>> ELSE <<>>]

(***************************************************************************)
(* update_deepmd_input: version detection and the routing table.           *)
(***************************************************************************)
is_deepmd_v0_input(d) == ~Has(d, "model")

\* jdata["training"].keys() raises KeyError when there is no training section
is_deepmd_v1_input_err(d) == KeyErr(d, "training")

is_deepmd_v1_input(d) == Has(d["training"], "systems")

\* mutant: the 1.x.x branch prunes before it converts
Stages_pruneFirst(r) ==
    CASE r = "v0" -> <<"convert_input_v0_v1", "convert_input_v1_v2", "deprecate_numb_test">>
      [] r = "v1" -> <<"deprecate_numb_test", "convert_input_v1_v2">>
      [] r = "v2" -> <<"deprecate_numb_test">>
      [] OTHER    -> <<call>>

\* the stages update_deepmd_input runs for a detected version
Stages(r) ==
    CASE r = "v0" -> <<"convert_input_v0_v1", "convert_input_v1_v2", "deprecate_numb_test">>
      [] r = "v1" -> <<"convert_input_v1_v2", "deprecate_numb_test">>
      [] r = "v2" -> <<"deprecate_numb_test">>
      [] OTHER    -> <<call>>

\* mutant: every stage is given the caller's warning flag
StageWarning_everyStage(r, n) == warning

\* the warning flag update_deepmd_input passes to the n-th stage of a route
StageWarning(r, n) ==
    IF r \in {"v0", "v1", "v2"} THEN (IF n = 1 THEN warning ELSE FALSE) ELSE warning

\* mutant: every stage is given the caller's dump path
StageDump_everyStage(r, n) == dump

\* the dump argument update_deepmd_input passes to the n-th stage of a route
StageDump(r, n) ==
    IF r \in {"v0", "v1", "v2"} THEN (IF n = Len(Stages(r)) THEN dump ELSE None)
    ELSE dump

(***************************************************************************)
(* Input documents.  Three base documents, one per layout, and every       *)
(* document that differs from a base in at most MaxToggle keys (a key the  *)
(* base has is removed, a key it lacks is added).                          *)
(***************************************************************************)
V0Base(smooth) ==
    [use_smooth |-> smooth, sel_a |-> <<46, 92>>, sel_r |-> <<0, 0>>, rcut |-> 6,
     axis_rule |-> <<0, 1, 0, 0>>, filter_neuron |-> <<25, 50>>, axis_neuron |-> 16,
     fitting_neuron |-> <<240, 240>>,
     decay_steps |-> 2, decay_rate |-> 2, start_lr |-> 3,
     start_pref_e |-> 1, limit_pref_e |-> 2, start_pref_f |-> 1000,
     limit_pref_f |-> 4, start_pref_v |-> 0, limit_pref_v |-> 5,
     systems |-> <<"data">>, set_prefix |-> "set", stop_batch |-> 4, batch_size |-> 7,
     disp_freq |-> 100, numb_test |-> 10, save_freq |-> 1000, save_ckpt |-> "model.ckpt",
     disp_training |-> TRUE, time_training |-> TRUE]

V0Extra(flag) ==
    [seed |-> 1, rcut_smth |-> 5, n_axis_neuron |-> 8, n_neuron |-> <<120, 120>>,
     resnet_dt |-> flag, filter_resnet_dt |-> ~flag, fitting_resnet_dt |-> ~flag,
     limit_pref_ae |-> 9, disp_file |-> "lcurve.txt",
     profiling |-> flag, profiling_file |-> "timeline.json"]

V0ToggleKeys ==
    {"use_smooth", "sel_a", "rcut", "filter_neuron", "axis_neuron", "fitting_neuron",
     "decay_rate", "start_lr", "stop_batch", "systems", "batch_size", "numb_test",
     "disp_freq", "start_pref_e"} \cup DOMAIN V0Extra(TRUE)

\* base with the keys of S toggled; a key that is added takes its value in extra
ToggleMap(base, extra, S) ==
    [k \in (DOMAIN base \ S) \cup ((S \cap DOMAIN extra) \ DOMAIN base) |->
        IF k \in DOMAIN base THEN base[k] ELSE extra[k]]

V1Base == convert_input_v0_v1(V0Base(TRUE), FALSE, None).doc

V2Base == deprecate_numb_test(convert_input_v1_v2(V1Base, FALSE, None).doc, FALSE, None).doc

TrainingExtra ==
    [systems |-> <<"data">>, batch_size |-> 7, sys_prob |-> <<1>>, auto_prob |-> "prob_sys_size",
     numb_test |-> 10, stop_batch |-> 4,
     training_data |-> [systems |-> <<"data">>, batch_size |-> 7, set_prefix |-> "set"]]

LearningRateExtra == [decay_rate |-> 2, start_lr |-> 3, decay_steps |-> 2, stop_lr |-> 12]

\* toggles of a structured document: <<section, key>>, section "" for a
\* top-level key
StructToggles ==
    ({""} \X {"model", "training", "learning_rate"})
        \cup ({"training"} \X {"systems", "set_prefix", "batch_size", "sys_prob",
                              "auto_prob", "stop_batch", "numb_test", "training_data",
                              "disp_freq"})
        \cup ({"learning_rate"} \X {"decay_rate", "start_lr", "decay_steps"})

ToggleStruct(base, T) ==
    LET keys(sec) == {p[2] : p \in {q \in T : q[1] = sec}}
        d1 == [base EXCEPT !["training"] = ToggleMap(@, TrainingExtra, keys("training")),
                           !["learning_rate"] = ToggleMap(@, LearningRateExtra,
                                                          keys("learning_rate"))]
    IN  ToggleMap(d1, Empty, keys(""))

\* the subsets of U of at most n elements
RECURSIVE UpTo(_, _)
UpTo(U, n) ==
    IF n = 0 THEN {{}}
    ELSE UpTo(U, n - 1) \cup {S \cup {x} : S \in UpTo(U, n - 1), x \in U}

Small(U) == UpTo(U, MaxToggle)

Documents ==
    {ToggleMap(V0Base(b[1]), V0Extra(b[2]), S) :
         b \in BOOLEAN \X BOOLEAN, S \in Small(V0ToggleKeys)}
        \cup {ToggleStruct(V1Base, T) : T \in Small(StructToggles)}
        \cup {ToggleStruct(V2Base, T) : T \in Small(StructToggles)}

EntryPoints == {"update_deepmd_input", "convert_input_v1_v2", "deprecate_numb_test"}

(***************************************************************************)
(* The state machine: one call of an entry point on a document, stage by   *)
(* stage, and the next application to the document it returned.            *)
(***************************************************************************)
Init ==
    /\ call \in EntryPoints
    /\ warning \in BOOLEAN
    /\ dump \in {None, SinkPath}
    /\ arg \in Documents
    /\ jdata = arg
    /\ route = ""
    /\ pc = "call"
    /\ trace = <<>>
    /\ err = ""
    /\ warnings = <<>>
    /\ writes = <<>>
    /\ result = <<>>
    /\ ncalls = 1
    /\ orig = arg
    /\ first = <<>>

\* update_deepmd_input, up to the choice of the branch
Detect ==
    /\ pc = "call"
    /\ call = "update_deepmd_input"
    /\ IF is_deepmd_v0_input(jdata)
       THEN route' = "v0" /\ pc' = "convert_input_v0_v1" /\ err' = ""
       ELSE IF is_deepmd_v1_input_err(jdata) # ""
       THEN route' = "" /\ pc' = "failed" /\ err' = is_deepmd_v1_input_err(jdata)
       ELSE IF is_deepmd_v1_input(jdata)
       THEN route' = "v1" /\ pc' = "convert_input_v1_v2" /\ err' = ""
       ELSE route' = "v2" /\ pc' = "deprecate_numb_test" /\ err' = ""
    /\ UNCHANGED <<call, warning, dump, arg, jdata, trace, warnings, writes,
                   result, ncalls, orig, first>>

\* a stage called directly by the user
DirectCall ==
    /\ pc = "call"
    /\ call # "update_deepmd_input"
    /\ route' = "direct"
    /\ pc' = call
    /\ UNCHANGED <<call, warning, dump, arg, jdata, trace, err, warnings, writes,
                   result, ncalls, orig, first>>

\* the effect r of the stage at pc, and the step to the next stage, to the
\* return of the last stage, or to the failure of the call
RunStage(r) ==
    LET n == Len(trace) + 1
    IN  /\ trace' = Append(trace, pc)
        /\ jdata' = r.doc
        /\ err' = r.err
        /\ warnings' = warnings \o r.warns
        /\ writes' = writes \o r.writes
        /\ IF r.err # "" THEN pc' = "failed" /\ result' = result
           ELSE IF n = Len(Stages(route)) THEN pc' = "done" /\ result' = <<r.doc>>
           ELSE pc' = Stages(route)[n + 1] /\ result' = result
        /\ UNCHANGED <<call, warning, dump, arg, route, ncalls, orig, first>>

StageV0V1 ==
    /\ pc = "convert_input_v0_v1"
    /\ RunStage(convert_input_v0_v1(jdata, StageWarning(route, Len(trace) + 1),
                                    StageDump(route, Len(trace) + 1)))

StageV1V2 ==
    /\ pc = "convert_input_v1_v2"
    /\ RunStage(convert_input_v1_v2(jdata, StageWarning(route, Len(trace) + 1),
                                    StageDump(route, Len(trace) + 1)))

StagePrune ==
    /\ pc = "deprecate_numb_test"
    /\ RunStage(deprecate_numb_test(jdata, StageWarning(route, Len(trace) + 1),
                                    StageDump(route, Len(trace) + 1)))

\* the same entry point is applied to the document it returned
Reapply ==
    /\ pc = "done"
    /\ ncalls < MaxCalls
    /\ ncalls' = ncalls + 1
    /\ first' = IF ncalls = 1 THEN result ELSE first
    /\ arg' = result[1]
    /\ jdata' = result[1]
    /\ warning' \in BOOLEAN
    /\ pc' = "call"
    /\ route' = ""
    /\ trace' = <<>>
    /\ err' = ""
    /\ warnings' = <<>>
    /\ writes' = <<>>
    /\ result' = <<>>
    /\ UNCHANGED <<call, dump, orig>>

Next ==
    \/ Detect
    \/ DirectCall
    \/ StageV0V1
    \/ StageV1V2
    \/ StagePrune
    \/ Reapply

Spec == Init /\ [][Next]_vars

TypeOK ==
    /\ pc \in {"call", "convert_input_v0_v1", "convert_input_v1_v2",
               "deprecate_numb_test", "done", "failed"}
    /\ err \in {"", "KeyError", "RuntimeError"}
    /\ (pc = "failed") = (err # "")
    /\ (pc = "done") = (result # <<>>)

(***************************************************************************)
(* Vocabulary of the properties.                                           *)
(***************************************************************************)
Range(s) == {s[i] : i \in 1..Len(s)}

IsPrefix(s, t) == Len(s) <= Len(t) /\ \A i \in 1..Len(s) : s[i] = t[i]

HasModel(d) == "model" \in DOMAIN d
HasTraining(d) == "training" \in DOMAIN d
InTraining(d, k) == HasTraining(d) /\ k \in DOMAIN d["training"]

IsV0(d) == ~HasModel(d)
IsV1(d) == HasModel(d) /\ InTraining(d, "systems")
IsV2(d) == HasModel(d) /\ HasTraining(d) /\ ~InTraining(d, "systems")

Updating == call = "update_deepmd_input"
Migrating == call = "convert_input_v1_v2"
Pruning == call = "deprecate_numb_test"

\* the state right after a call of convert_input_v1_v2 on the document arg
AfterV1V2 ==
    /\ trace # <<>>
    /\ trace[1] = "convert_input_v1_v2"
    /\ Len(trace) = 1

ExpectedStages(d) ==
    IF IsV0(d) THEN <<"convert_input_v0_v1", "convert_input_v1_v2", "deprecate_numb_test">>
    ELSE IF IsV1(d) THEN <<"convert_input_v1_v2", "deprecate_numb_test">>
    ELSE IF IsV2(d) THEN <<"deprecate_numb_test">>
    ELSE <<>>

\* C1: update_deepmd_input runs the stages of the detected version in the
\* fixed order (v0: v0->v1, v1->v2, pruner; v1: v1->v2, pruner; v2+: pruner
\* only); a call that returns has run all of them, the pruner exactly once and
\* last, and no migrator twice
C1_StageOrder ==
    (Updating /\ pc # "call") =>
        /\ IsPrefix(trace, ExpectedStages(arg))
        /\ (pc = "done" =>
               /\ trace = ExpectedStages(arg)
               /\ trace[Len(trace)] = "deprecate_numb_test"
               /\ Cardinality(Range(trace)) = Len(trace))
        /\ (pc \notin {"done", "failed"} => pc = ExpectedStages(arg)[Len(trace) + 1])

C1_Witness ==
    /\ Updating /\ pc = "done" /\ IsV0(arg)
    /\ trace = <<"convert_input_v0_v1", "convert_input_v1_v2", "deprecate_numb_test">>

\* C2: a call of update_deepmd_input writes nothing before its last stage; when
\* it returns it has written the sink exactly once if a path was given, with
\* the returned (migrated and pruned) document as content, and nothing if no
\* path was given
C2_SinkOnce ==
    Updating =>
        /\ (pc # "done" => writes = <<>>)
        /\ (pc = "done" /\ dump = None => writes = <<>>)
        /\ (pc = "done" /\ dump # None =>
               /\ Len(writes) = 1
               /\ writes[1].path = dump
               /\ writes[1].text = result[1]
               /\ ~InTraining(writes[1].text, "numb_test")
               /\ trace[Len(trace)] = "deprecate_numb_test")

C2_Witness ==
    /\ Updating /\ pc = "done" /\ dump # None /\ IsV0(arg)
    /\ Len(trace) = 3
    /\ Len(writes) = 1

\* C3: a call of update_deepmd_input emits at most one warning and none when
\* the flag is false; with the flag true, a returning call emits exactly the
\* version-0 notice for a v0 document, exactly the version-1 notice for a v1
\* document, and the numb_test notice for a v2+ document iff
\* training.numb_test was present
C3_OneWarning ==
    Updating =>
        /\ Len(warnings) <= 1
        /\ (~warning => warnings = <<>>)
        /\ (pc = "done" /\ warning /\ IsV0(arg) =>
               /\ Len(warnings) = 1
               /\ warnings[1][1] = "deepmd-kit input of version 0.x.x")
        /\ (pc = "done" /\ warning /\ IsV1(arg) =>
               /\ Len(warnings) = 1
               /\ warnings[1][1] = "deepmd-kit input of version 1.x.x")
        /\ (pc = "done" /\ warning /\ IsV2(arg) =>
               warnings = IF InTraining(arg, "numb_test")
                          THEN <<numb_test_warning>> ELSE <<>>)

C3_Witness ==
    /\ Updating /\ pc = "done" /\ warning /\ IsV0(arg)
    /\ InTraining(jdata, "training_data")
    /\ Len(warnings) = 1

\* C4: convert_input_v1_v2 on a document whose training has training_data
\* fails, for either warning flag and with or without a sink, before any
\* warning or write and without touching the document; so does
\* update_deepmd_input on a document with model, training.systems and
\* training.training_data
C4_Conflict ==
    /\ (Migrating /\ InTraining(arg, "training_data")
            /\ pc \notin {"call", "convert_input_v1_v2"} =>
           /\ pc = "failed" /\ err = "RuntimeError"
           /\ warnings = <<>> /\ writes = <<>> /\ result = <<>>
           /\ jdata = arg)
    /\ (Updating /\ IsV1(arg) /\ InTraining(arg, "training_data")
            /\ pc \notin {"call", "convert_input_v1_v2"} =>
           /\ pc = "failed" /\ err = "RuntimeError"
           /\ trace = <<"convert_input_v1_v2">>
           /\ warnings = <<>> /\ writes = <<>> /\ result = <<>>
           /\ jdata = arg)

C4_Witness ==
    /\ Updating /\ IsV1(arg) /\ InTraining(arg, "training_data")
    /\ warning /\ dump # None
    /\ pc = "failed" /\ err = "RuntimeError"

C5_DataKeys == {"systems", "set_prefix", "batch_size", "sys_prob", "auto_prob",
                "sys_weights", "auto_prob_style"}

\* C5: after a successful convert_input_v1_v2, training.training_data holds
\* exactly the original training pairs whose key is a data key, training holds
\* exactly the other original pairs plus training_data, no key is at both
\* levels and none is lost
C5_Partition ==
    ((Migrating \/ (Updating /\ route = "v1")) /\ AfterV1V2 /\ err = "") =>
        LET old == arg["training"]
            new == jdata["training"]
            td  == new["training_data"]
        IN  /\ DOMAIN td = DOMAIN old \cap C5_DataKeys
            /\ \A k \in DOMAIN td : td[k] = old[k]
            /\ DOMAIN new = (DOMAIN old \ C5_DataKeys) \cup {"training_data"}
            /\ \A k \in DOMAIN new \ {"training_data"} : new[k] = old[k]
            /\ DOMAIN td \cap DOMAIN new = {}
            /\ DOMAIN old \subseteq DOMAIN td \cup DOMAIN new

C5_Witness ==
    /\ Migrating /\ pc = "done" /\ ncalls = 1
    /\ DOMAIN arg["training"] \cap C5_DataKeys = {"systems", "batch_size"}
    /\ DOMAIN jdata["training"]["training_data"] = {"systems", "batch_size"}
    /\ DOMAIN jdata["training"] \cap {"systems", "batch_size"} = {}

\* C6: the document a successful update_deepmd_input returned is detected as
\* v2+ (model, no training.systems, no training.numb_test); applying
\* update_deepmd_input to it again runs the pruner only, warns about nothing,
\* does not fail and returns an equal document
C6_ReapplyIdempotent ==
    (Updating /\ ncalls >= 2) =>
        /\ IsV2(arg) /\ ~InTraining(arg, "numb_test")
        /\ pc # "failed"
        /\ warnings = <<>>
        /\ (pc # "call" => route = "v2")
        /\ (pc = "done" => trace = <<"deprecate_numb_test">> /\ result = first)

C6_Witness ==
    /\ Updating /\ ncalls = 2 /\ pc = "done" /\ warning
    /\ IsV0(orig)
    /\ result = first

\* the document d without training.numb_test
C7_Pruned(d) ==
    IF InTraining(d, "numb_test")
    THEN [d EXCEPT !["training"] = [k \in DOMAIN @ \ {"numb_test"} |-> @[k]]]
    ELSE d

\* C7: deprecate_numb_test never fails; its first application removes
\* training.numb_test and nothing else, an application to a document without
\* that key changes nothing and warns about nothing, and a second application
\* returns what the first returned
C7_PrunerIdempotent ==
    Pruning =>
        /\ pc # "failed"
        /\ (pc = "done" => result = <<C7_Pruned(arg)>>)
        /\ (pc = "done" /\ ~InTraining(arg, "numb_test") =>
               result = <<arg>> /\ warnings = <<>>)
        /\ (pc = "done" /\ ncalls >= 2 => result = first /\ warnings = <<>>)

C7_Witness ==
    /\ Pruning /\ ncalls = 2 /\ pc = "done" /\ warning
    /\ InTraining(orig, "numb_test")
    /\ result = first
    /\ first # <<orig>>

\* C8: with warnings enabled and a sink path given, the warning that
\* update_deepmd_input emits for a v0 or v1 document names the detected
\* version and includes the sink path
C8_WarningNamesSink ==
    (Updating /\ warning /\ dump # None /\ route \in {"v0", "v1"}) =>
        \A i \in 1..Len(warnings) :
            /\ warnings[i][1] = (IF route = "v0"
                                 THEN "deepmd-kit input of version 0.x.x"
                                 ELSE "deepmd-kit input of version 1.x.x")
            /\ dump \in Range(warnings[i])

\* C9: when convert_input_v1_v2, called directly or by update_deepmd_input on
\* a v1 document, fails, nothing is returned and the caller's document is not
\* left partially migrated
C9_NoPartialApplication ==
    ((Migrating \/ (Updating /\ route = "v1")) /\ AfterV1V2 /\ pc = "failed") =>
        /\ result = <<>>
        /\ jdata = arg

\* C10: update_deepmd_input treats a document with a model key and no training
\* section as v2+: it runs the pruner only, raises nothing and returns the
\* document unchanged
C10_NoTrainingIsV2 ==
    (Updating /\ HasModel(arg) /\ ~HasTraining(arg) /\ pc # "call") =>
        /\ pc # "failed"
        /\ (pc = "done" => trace = <<"deprecate_numb_test">> /\ result = <<arg>>)

====
